---------------------------- MODULE Spec2Model ----------------------------
(***************************************************************************)
(* Model of gcodepause.GCodeFile (src/gcodepause/gcodefile.py): a GCODE    *)
(* file held as a list of lines, the two indices derived from it (layers,  *)
(* pauses) and the operations insert_pause, remove_pause and               *)
(* insert_pauses_from_yaml.                                                *)
(*                                                                         *)
(* Lines are strings with their terminators.  Line numbers are zero based  *)
(* as in the code; the line with number n is lines[n + 1].  A height (a    *)
(* Python float) is a decimal fraction [num, den] in lowest decimal form.  *)
(* An OrderedDict is modelled by the mapping it holds: no modelled         *)
(* operation reads its iteration order (sorted() and a reversed dict are   *)
(* the only traversals).                                                   *)
(***************************************************************************)
EXTENDS Integers, Sequences, FiniteSets, TLC

VARIABLES lines,    \* self.lines
          layers,   \* self.layers : height -> line number
          pauses,   \* self.pauses : height -> <<start, end>>
          hist      \* the calls made so far, each with the state it started from

vars == <<lines, layers, pauses, hist>>

-----------------------------------------------------------------------------
(* Bounds *)

\* number of chunks a source file is made of
MaxChunks == 2
\* number of calls made on one GCodeFile object
MaxOps == 2
\* number of records in a YAML file
MaxRecords == 2

-----------------------------------------------------------------------------
(* Strings *)

Digits == {"0", "1", "2", "3", "4", "5", "6", "7", "8", "9"}

CharAt(s, i) == SubSeq(s, i, i)

\* s[i:] of Python for a one based i
StrFrom(s, i) == IF i > Len(s) THEN "" ELSE SubSeq(s, i, Len(s))

RECURSIVE LStrip(_, _)
LStrip(s, c) ==
    IF Len(s) > 0 /\ CharAt(s, 1) = c THEN LStrip(StrFrom(s, 2), c) ELSE s

RECURSIVE RStrip(_, _)
RStrip(s, c) ==
    IF Len(s) > 0 /\ CharAt(s, Len(s)) = c
    THEN RStrip(IF Len(s) = 1 THEN "" ELSE SubSeq(s, 1, Len(s) - 1), c)
    ELSE s

\* str.strip(c) for a single character c
Strip(s, c) == RStrip(LStrip(s, c), c)

\* line.strip('\n').strip('\r')
StripEol(line) == Strip(Strip(line, "\n"), "\r")

\* the number of leading characters of s, from position i on, that are in set
RECURSIVE Span(_, _, _)
Span(s, i, set) ==
    IF i <= Len(s) /\ CharAt(s, i) \in set THEN 1 + Span(s, i + 1, set) ELSE 0

\* re.match(pattern, s) for a pattern of literal characters: a prefix match
MatchLiteral(pattern, s) ==
    Len(s) >= Len(pattern) /\ SubSeq(s, 1, Len(pattern)) = pattern

\* re.match(r'\A(;[0-9]+\.*[0-9]*){1}\Z', s)
MatchLayer(s) ==
    /\ Len(s) >= 1
    /\ CharAt(s, 1) = ";"
    /\ LET d1 == Span(s, 2, Digits)
           dots == Span(s, 2 + d1, {"."})
           d2 == Span(s, 2 + d1 + dots, Digits)
       IN  d1 >= 1 /\ 1 + d1 + dots + d2 = Len(s)

-----------------------------------------------------------------------------
(* Heights *)

RECURSIVE Pow10(_)
Pow10(k) == IF k = 0 THEN 1 ELSE 10 * Pow10(k - 1)

RECURSIVE Normal(_, _)
Normal(n, d) ==
    IF d > 1 /\ n % 10 = 0 THEN Normal(n \div 10, d \div 10)
    ELSE [num |-> n, den |-> d]

\* the float of the decimal n / d, d a power of ten
Height(n, d) == Normal(n, d)

\* a < b on floats
Less(a, b) == a.num * b.den < b.num * a.den

DigitVal(c) == CHOOSE v \in 0..9 : ToString(v) = c

\* int() of the digit string s[i .. j]
RECURSIVE DigitsVal(_, _, _)
DigitsVal(s, i, j) ==
    IF j < i THEN 0 ELSE 10 * DigitsVal(s, i, j - 1) + DigitVal(CharAt(s, j))

\* float(s) for s of the shape digits dots digits: a ValueError (ok = FALSE)
\* when s holds more than one point
ParseFloat(s) ==
    LET d1 == Span(s, 1, Digits)
        dots == Span(s, 1 + d1, {"."})
        d2 == Span(s, 1 + d1 + dots, Digits)
    IN  IF dots > 1 \/ d1 + dots + d2 # Len(s) \/ d1 + d2 = 0
        THEN [ok |-> FALSE, val |-> Height(0, 1)]
        ELSE [ok |-> TRUE,
              val |-> Height(DigitsVal(s, 1, d1) * Pow10(d2)
                               + DigitsVal(s, 2 + d1, d1 + 1 + d2),
                             Pow10(d2))]


-----------------------------------------------------------------------------
(* The pause template and its instantiation *)

\* format(x, '.4g') for an integer x >= 10000: four significant digits, the
\* ties rounded to even, trailing zeros dropped, a two digit exponent
RECURSIVE NDigits(_)
NDigits(x) == IF x < 10 THEN 1 ELSE 1 + NDigits(x \div 10)

RECURSIVE DropZeros(_)
DropZeros(m) == IF m > 0 /\ m % 10 = 0 THEN DropZeros(m \div 10) ELSE m

Exp4g(x) ==
    LET e0 == NDigits(x) - 1
        unit == Pow10(e0 - 3)
        q == x \div unit
        r == x % unit
        up == 2 * r > unit \/ (2 * r = unit /\ q % 2 = 1)
        m0 == IF up THEN q + 1 ELSE q
        m == IF m0 = 10000 THEN 1000 ELSE m0
        e == IF m0 = 10000 THEN e0 + 1 ELSE e0
        frac == DropZeros((m % 1000) + 1000)
        fracStr == IF (m % 1000) = 0 THEN ""
                   ELSE "." \o StrFrom(ToString(frac), 2)
    IN  ToString(m \div 1000) \o fracStr \o "e+"
          \o (IF e < 10 THEN "0" ELSE "") \o ToString(e)

\* format(x, '.4g') for an integer x > 0
Fmt4g(x) == IF x < 10000 THEN ToString(x) ELSE Exp4g(x)

\* format(message, ''): None prints as None. A message is <<>> (None) or
\* <<text>>.
FmtMessage(message) == IF message = <<>> THEN "None" ELSE message[1]

\* the module's template, the three parameterised lines left unformatted
template ==
    << ";BEGIN_PAUSE\n",
       "G91    ; Put in relative mode\n",
       "G1 Z{z_offset:.4g}    ; Raise hot end by {z_offset:.4g}mm\n",
       "G90    ; Put back in absolute mode\n",
       "G1 X{x:.4g} Y{y:.4g}    ; Move the X & Y away from the print\n",
       "M0 {message}    ; Pause and wait for the user\n",
       ";END_PAUSE\n" >>

\* template[2].format(z_offset=z_offset)
FormatZ(z_offset) ==
    "G1 Z" \o Fmt4g(z_offset) \o "    ; Raise hot end by "
           \o Fmt4g(z_offset) \o "mm\n"

\* template[4].format(x=x, y=y)
FormatXY(x, y) ==
    "G1 X" \o Fmt4g(x) \o " Y" \o Fmt4g(y)
           \o "    ; Move the X & Y away from the print\n"

\* template[5].format(message=message)
FormatMessage(message) ==
    "M0 " \o FmtMessage(message) \o "    ; Pause and wait for the user\n"

\* ValidZ with >= for >: a z_offset of zero passes
ValidZOrZero(z_offset) == z_offset >= 0

\* the z_offset test of _get_pause_text
ValidZ(z_offset) == z_offset > 0

\* the x_pause, y_pause test of _get_pause_text
ValidXY(x_pause, y_pause) == x_pause > 0 /\ y_pause > 0

\* _get_pause_text: the lines to insert, or a ValueError
GetPauseText(z_offset, x_pause, y_pause, message) ==
    IF ~ValidZ(z_offset) THEN [raised |-> "ValueError", text |-> <<>>]
    ELSE IF ~ValidXY(x_pause, y_pause)
    THEN [raised |-> "ValueError", text |-> <<>>]
    ELSE [raised |-> "none",
          text |-> [template EXCEPT ![3] = FormatZ(z_offset),
                                    ![5] = FormatXY(x_pause, y_pause),
                                    ![6] = FormatMessage(message)]]

-----------------------------------------------------------------------------
(* The two scans *)

EmptyMap == [k \in {} |-> 0]

\* d[k] = v on a dict
Put(d, k, v) == [x \in DOMAIN d \cup {k} |-> IF x = k THEN v ELSE d[x]]

\* the loop of _find_layers over the lines numbered i - 1 and up, acc the
\* layers found so far; a ValueError of float() ends the scan
RECURSIVE ScanLayers(_, _, _)
ScanLayers(ls, i, acc) ==
    IF i > Len(ls) THEN [raised |-> "none", layers |-> acc]
    ELSE LET line == StripEol(ls[i])
         IN  IF MatchLayer(line)
             THEN LET f == ParseFloat(Strip(line, ";"))
                  IN  IF f.ok THEN ScanLayers(ls, i + 1, Put(acc, f.val, i - 1))
                      ELSE [raised |-> "ValueError", layers |-> acc]
             ELSE ScanLayers(ls, i + 1, acc)

\* _find_layers(lines): the value it assigns to self.layers, unless it raises
FindLayers(ls) == ScanLayers(ls, 1, EmptyMap)

\* PauseEnd with the end one line too far: line_num + len(template)
PauseEndPast(line_num) == line_num + Len(template)

\* the end of the pause block that starts at line_num
PauseEnd(line_num) == line_num + Len(template) - 1

\* re.match(self.pause_template[0].strip('\n').strip('\r'), line)
MatchPause(line) == MatchLiteral(StripEol(template[1]), line)

\* the loop of _find_pauses; the reversed dict {l: h} has no key line_num - 1
\* when no layer is recorded at the line before: a KeyError
RECURSIVE ScanPauses(_, _, _, _)
ScanPauses(ls, lyrs, i, acc) ==
    IF i > Len(ls) THEN [raised |-> "none", pauses |-> acc]
    ELSE IF MatchPause(StripEol(ls[i]))
    THEN LET hs == {h \in DOMAIN lyrs : lyrs[h] = (i - 1) - 1}
         IN  IF hs = {} THEN [raised |-> "KeyError", pauses |-> acc]
             ELSE ScanPauses(ls, lyrs, i + 1,
                             Put(acc, CHOOSE h \in hs : TRUE,
                                 <<i - 1, PauseEnd(i - 1)>>))
    ELSE ScanPauses(ls, lyrs, i + 1, acc)

\* _find_pauses(lines), reading self.layers: the value it assigns to
\* self.pauses, unless it raises
FindPauses(ls, lyrs) == ScanPauses(ls, lyrs, 1, EmptyMap)

-----------------------------------------------------------------------------
(* Layer resolution *)

\* GetLayer without the sort: the highest of the higher layers is taken
GetLayerHighest(lyrs, z) ==
    IF z \in DOMAIN lyrs
    THEN [none |-> FALSE, line |-> lyrs[z], warning |-> "none"]
    ELSE LET higher == {h \in DOMAIN lyrs : Less(z, h)}
         IN  IF higher # {}
             THEN LET first == CHOOSE h \in higher :
                                   \A g \in higher : ~Less(h, g)
                  IN  [none |-> FALSE, line |-> lyrs[first],
                       warning |-> "next higher layer"]
             ELSE [none |-> TRUE, line |-> 0, warning |-> "above all layers"]

\* _get_layer(z): the line number, or None (none = TRUE), and the warning
GetLayer(lyrs, z) ==
    IF z \in DOMAIN lyrs
    THEN [none |-> FALSE, line |-> lyrs[z], warning |-> "none"]
    ELSE LET higher == {h \in DOMAIN lyrs : Less(z, h)}
         IN  IF higher # {}
             THEN LET first == CHOOSE h \in higher :
                                   \A g \in higher : ~Less(g, h)
                  IN  [none |-> FALSE, line |-> lyrs[first],
                       warning |-> "next higher layer"]
             ELSE [none |-> TRUE, line |-> 0, warning |-> "above all layers"]

-----------------------------------------------------------------------------
(* The operations, as functions of the object's fields *)

\* ls[:n] and ls[n:] of Python, n >= 0
Take(ls, n) == IF n >= Len(ls) THEN ls ELSE SubSeq(ls, 1, n)
Drop(ls, n) == IF n >= Len(ls) THEN <<>> ELSE SubSeq(ls, n + 1, Len(ls))

\* Splice without the insert_line += 1: the block goes before the marker
SpliceBefore(ls, insert_line, text) ==
    Take(ls, insert_line - 1) \o text \o Drop(ls, insert_line - 1)

\* self.lines[:insert_line] + pause_template + self.lines[insert_line:]
Splice(ls, insert_line, text) ==
    Take(ls, insert_line) \o text \o Drop(ls, insert_line)

\* self.lines[:start] + self.lines[end + 1:]
Cut(ls, start, end) == Take(ls, start) \o Drop(ls, end + 1)

\* self.lines = newLines; self._find_layers(self.lines);
\* self._find_pauses(self.lines): each field holds what was assigned to it
\* before an exception, if any, left the method
Rebuild(st, newLines, warning) ==
    LET fl == FindLayers(newLines)
    IN  IF fl.raised # "none"
        THEN [lines |-> newLines, layers |-> st.layers, pauses |-> st.pauses,
              raised |-> fl.raised, warning |-> warning]
        ELSE LET fp == FindPauses(newLines, fl.layers)
             IN  [lines |-> newLines, layers |-> fl.layers,
                  pauses |-> IF fp.raised = "none" THEN fp.pauses
                             ELSE st.pauses,
                  raised |-> fp.raised, warning |-> warning]

\* the call returns or raises with the fields as they were
Same(st, raised, warning) ==
    [lines |-> st.lines, layers |-> st.layers, pauses |-> st.pauses,
     raised |-> raised, warning |-> warning]

\* insert_pause(z, **kw) on the fields st
InsertPause(st, z, kw) ==
    LET target == GetLayer(st.layers, z)
    IN  IF target.none THEN Same(st, "none", target.warning)
        ELSE LET insert_line == target.line + 1
                 text == GetPauseText(kw.z_offset, kw.x_pause, kw.y_pause,
                                      kw.message)
             IN  IF text.raised # "none"
                 THEN Same(st, text.raised, target.warning)
                 ELSE Rebuild(st, Splice(st.lines, insert_line, text.text),
                              target.warning)

\* remove_pause(height) on the fields st
RemovePause(st, height) ==
    IF height \in DOMAIN st.pauses
    THEN LET start == st.pauses[height][1]
             end == st.pauses[height][2]
         IN  Rebuild(st, Cut(st.lines, start, end), "none")
    ELSE Same(st, "none", "no pause found")

\* the defaults of insert_pause's parameters
Defaults ==
    [z_offset |-> 10, x_pause |-> 10, y_pause |-> 10, message |-> <<>>]

\* the parameters insert_pause runs with when called with the keywords kw
WithDefaults(kw) ==
    [k \in DOMAIN Defaults |-> IF k \in DOMAIN kw THEN kw[k] ELSE Defaults[k]]

\* OrderedDict(yaml.load(f)): the records of the file as a dict's items. A
\* key listed again keeps its first place and takes the later value.
RECURSIVE DictItems(_)
DictItems(rs) ==
    IF rs = <<>> THEN <<>>
    ELSE LET front == DictItems(SubSeq(rs, 1, Len(rs) - 1))
             r == rs[Len(rs)]
         IN  IF \E i \in DOMAIN front : front[i][1] = r[1]
             THEN [i \in DOMAIN front |->
                      IF front[i][1] = r[1] THEN r ELSE front[i]]
             ELSE Append(front, r)

\* YamlLoop with the exception of a call swallowed: the loop goes on with
\* the next item
RECURSIVE YamlLoopResume(_, _, _, _)
YamlLoopResume(st, items, i, warnings) ==
    IF i > Len(items)
    THEN [lines |-> st.lines, layers |-> st.layers, pauses |-> st.pauses,
          raised |-> "none", warnings |-> warnings, calls |-> i - 1]
    ELSE LET r == InsertPause(st, items[i][1], WithDefaults(items[i][2]))
         IN  YamlLoopResume([lines |-> r.lines, layers |-> r.layers,
                             pauses |-> r.pauses],
                            items, i + 1, warnings)

\* the loop of insert_pauses_from_yaml from item i on: one insert_pause per
\* item, an exception leaving the loop. calls counts the calls made.
RECURSIVE YamlLoop(_, _, _, _)
YamlLoop(st, items, i, warnings) ==
    IF i > Len(items)
    THEN [lines |-> st.lines, layers |-> st.layers, pauses |-> st.pauses,
          raised |-> "none", warnings |-> warnings, calls |-> i - 1]
    ELSE LET r == InsertPause(st, items[i][1], WithDefaults(items[i][2]))
             ws == IF r.warning = "none" THEN warnings
                   ELSE Append(warnings, r.warning)
             next == [lines |-> r.lines, layers |-> r.layers,
                      pauses |-> r.pauses]
         IN  IF r.raised # "none"
             THEN [lines |-> r.lines, layers |-> r.layers,
                   pauses |-> r.pauses, raised |-> r.raised,
                   warnings |-> ws, calls |-> i]
             ELSE YamlLoop(next, items, i + 1, ws)

\* insert_pauses_from_yaml(file) for an existing file listing the records rs
InsertPausesFromYaml(st, rs) == YamlLoop(st, DictItems(rs), 1, <<>>)

\* __init__ after the file test: read the lines, then the two scans
Load(ls) == Rebuild([lines |-> <<>>, layers |-> EmptyMap, pauses |-> EmptyMap],
                    ls, "none")

-----------------------------------------------------------------------------
(* Inputs *)

\* the pieces source files are made of: layer markers (one of them ended
\* CR LF, one that float() rejects), a motion line, a pause block as
\* insert_pause writes it, and an opening sentinel on its own
Chunks ==
    { <<";1\n">>, <<";2.0\r\n">>, <<";1..5\n">>,
      <<"G1 X5 Y5\n">>, <<";BEGIN_PAUSE\n">>,
      GetPauseText(10, 10, 10, <<>>).text }

RECURSIVE Flatten(_)
Flatten(cs) == IF cs = <<>> THEN <<>> ELSE Head(cs) \o Flatten(Tail(cs))

Files ==
    { Flatten(cs) : cs \in UNION { [1..n -> Chunks] : n \in 0..MaxChunks } }

\* heights asked for: 1, 1.5, 2, 3
ReqHeights == { Height(1, 1), Height(15, 10), Height(2, 1), Height(3, 1) }

\* keyword arguments of an insert_pause call
Keywords ==
    { EmptyMap,
      [z_offset |-> 5, x_pause |-> 3, y_pause |-> 4,
       message |-> <<"Change filament">>],
      [z_offset |-> 0], [x_pause |-> -1], [y_pause |-> 0] }

\* records of a YAML file, at the heights 1.5, 2 and 3
Records ==
    { Height(15, 10), Height(2, 1), Height(3, 1) }
        \X { EmptyMap, [z_offset |-> 0] }

RecordLists == UNION { [1..n -> Records] : n \in 0..MaxRecords }

-----------------------------------------------------------------------------
(* The state machine *)

Fields == [lines |-> lines, layers |-> layers, pauses |-> pauses]

Call(op, z, kw, rs) == [op |-> op, z |-> z, kw |-> kw, records |-> rs]

\* the fields take the values of r; the call is added to the history
Done(call, r, warnings, calls) ==
    /\ lines' = r.lines
    /\ layers' = r.layers
    /\ pauses' = r.pauses
    /\ hist' = Append(hist, [call |-> call, pre |-> Fields,
                             raised |-> r.raised, warnings |-> warnings,
                             calls |-> calls])

Warnings(r) == IF r.warning = "none" THEN <<>> ELSE <<r.warning>>

Init ==
    /\ lines \in { f \in Files : Load(f).raised = "none" }
    /\ layers = Load(lines).layers
    /\ pauses = Load(lines).pauses
    /\ hist = <<>>

InsertPauseCall ==
    /\ Len(hist) < MaxOps
    /\ \E z \in ReqHeights, kw \in Keywords :
          \E r \in {InsertPause(Fields, z, WithDefaults(kw))} :
              Done(Call("insert_pause", z, WithDefaults(kw), <<>>), r,
                   Warnings(r), 1)

RemovePauseCall ==
    /\ Len(hist) < MaxOps
    /\ \E h \in ReqHeights :
          \E r \in {RemovePause(Fields, h)} :
              Done(Call("remove_pause", h, EmptyMap, <<>>), r, Warnings(r), 1)

\* the YAML file is applied to the object as loaded
InsertPausesFromYamlCall ==
    /\ hist = <<>>
    /\ \E rs \in RecordLists :
          \E r \in {InsertPausesFromYaml(Fields, rs)} :
              Done(Call("insert_pauses_from_yaml", Height(0, 1), EmptyMap, rs),
                   r, r.warnings, r.calls)

Next == InsertPauseCall \/ RemovePauseCall

Spec == Init /\ [][Next]_vars

NextYaml == InsertPausesFromYamlCall \/ RemovePauseCall

SpecYaml == Init /\ [][NextYaml]_vars

-----------------------------------------------------------------------------
(* Vocabulary of the properties *)

\* the last call and the one before it
Last == hist[Len(hist)]
Before == hist[Len(hist) - 1]

IsInsert(c) == c.call.op = "insert_pause"
IsRemove(c) == c.call.op = "remove_pause"
IsYaml(c) == c.call.op = "insert_pauses_from_yaml"

\* z_offset, x_pause and y_pause all strictly positive
ValidKeywords(kw) == kw.z_offset > 0 /\ kw.x_pause > 0 /\ kw.y_pause > 0

\* z is a key of the layer index lyrs / some key of lyrs is higher than z
Exact(lyrs, z) == z \in DOMAIN lyrs
HasHigher(lyrs, z) == \E h \in DOMAIN lyrs : Less(z, h)

\* the fields are those the call c started from
Untouched(c) ==
    lines = c.pre.lines /\ layers = c.pre.layers /\ pauses = c.pre.pauses

\* the length of a pause block
BlockLen == 7

\* the sentinels, without their line ends
BeginPause == ";BEGIN_PAUSE"
EndPause == ";END_PAUSE"

\* heights resolution is probed with: 0.5, 1, 1.5, 2, 2.5, 3
ProbeHeights ==
    { Height(5, 10), Height(1, 1), Height(15, 10), Height(2, 1),
      Height(25, 10), Height(3, 1) }

-----------------------------------------------------------------------------
(* C1 *)

\* an insert_pause at an exact height with valid parameters, directly
\* followed by remove_pause of the same height: the two calls made on the
\* object as loaded (whether or not the insert raised), or made later with
\* the insert having returned
RoundTripMade ==
    /\ Len(hist) >= 2
    /\ IsInsert(Before) /\ IsRemove(Last)
    /\ Exact(Before.pre.layers, Before.call.z)
    /\ ValidKeywords(Before.call.kw)
    /\ Last.call.z = Before.call.z
    /\ (Len(hist) = 2 \/ Before.raised = "none")

\* C1: for every loaded buffer, insert_pause(h, params) at an exact layer
\* height h with valid parameters, followed by remove_pause(h), leaves the
\* lines equal, line for line, to the lines before the insert; the same
\* holds in every later state when the insert returns.
C1_RoundTrip == RoundTripMade => lines = Before.pre.lines

\* a round trip that inserted seven lines and took them out again
C1_Witness ==
    /\ RoundTripMade
    /\ Len(Last.pre.lines) = Len(Before.pre.lines) + BlockLen
    /\ Last.pre.lines # Before.pre.lines
    /\ lines = Before.pre.lines

-----------------------------------------------------------------------------
(* C2 *)

\* two insert_pause calls in a row at the same exact height, valid parameters
TwoInsertsMade ==
    /\ Len(hist) >= 2
    /\ IsInsert(Before) /\ IsInsert(Last)
    /\ Exact(Before.pre.layers, Before.call.z)
    /\ Last.call.z = Before.call.z
    /\ ValidKeywords(Before.call.kw) /\ ValidKeywords(Last.call.kw)

\* C2: insert_pause twice at the same exact height with valid parameters
\* completes both times without raising and leaves two 7-line blocks stacked
\* directly after the marker line, the lines 14 longer than before.
C2_StackedInserts ==
    TwoInsertsMade =>
        LET L == Before.pre.layers[Before.call.z]
        IN  /\ Before.raised = "none" /\ Last.raised = "none"
            /\ Len(lines) = Len(Before.pre.lines) + 2 * BlockLen
            /\ StripEol(lines[L + 2]) = BeginPause
            /\ StripEol(lines[L + 1 + BlockLen]) = EndPause
            /\ StripEol(lines[L + 2 + BlockLen]) = BeginPause
            /\ StripEol(lines[L + 1 + 2 * BlockLen]) = EndPause

-----------------------------------------------------------------------------
(* C3 *)

\* C3: a call that raises leaves the lines as they were before it; a call
\* that changed the lines has returned normally with both indices rebuilt
\* from the new lines.
C3_AllOrNothing ==
    Len(hist) >= 1 =>
        /\ Last.raised # "none" => lines = Last.pre.lines
        /\ lines # Last.pre.lines =>
              /\ Last.raised = "none"
              /\ FindLayers(lines) = [raised |-> "none", layers |-> layers]
              /\ FindPauses(lines, layers)
                    = [raised |-> "none", pauses |-> pauses]

-----------------------------------------------------------------------------
(* C4 *)

\* C4: between calls, the layer index is what a scan of the current lines
\* gives and the pause index is what a pause scan of the current lines gives.
C4_IndexConsistent ==
    /\ FindLayers(lines) = [raised |-> "none", layers |-> layers]
    /\ FindPauses(lines, FindLayers(lines).layers)
          = [raised |-> "none", pauses |-> pauses]

-----------------------------------------------------------------------------
(* C5 *)

\* an insert_pause call with a parameter that is not strictly positive
InvalidInsertMade ==
    /\ Len(hist) >= 1
    /\ IsInsert(Last)
    /\ ~ValidKeywords(Last.call.kw)

\* C5 as claimed: insert_pause with z_offset, x_pause or y_pause not
\* strictly positive raises a value error and leaves lines and indices
\* unchanged, whatever the height asked for.
C5_InvalidAlwaysRaises ==
    InvalidInsertMade => Last.raised = "ValueError" /\ Untouched(Last)

\* C5 as amended: with an invalid parameter, insert_pause raises a value
\* error when the height resolves to a layer (exact or next higher) and
\* returns normally with only the above-all-layers warning when it does
\* not; lines and indices are unchanged either way.
C5_InvalidRaisesWhenResolved ==
    InvalidInsertMade =>
        /\ Untouched(Last)
        /\ IF Exact(Last.pre.layers, Last.call.z)
              \/ HasHigher(Last.pre.layers, Last.call.z)
           THEN Last.raised = "ValueError"
           ELSE Last.raised = "none"
                /\ Last.warnings = <<"above all layers">>

\* an invalid insert_pause at a height that resolves to a layer, refused
C5_Witness ==
    /\ InvalidInsertMade
    /\ HasHigher(Last.pre.layers, Last.call.z)
    /\ ~Exact(Last.pre.layers, Last.call.z)
    /\ Last.raised = "ValueError"

-----------------------------------------------------------------------------
(* C6 *)

\* a remove_pause call for a height the pause index held
RemoveMade ==
    /\ Len(hist) >= 1
    /\ IsRemove(Last)
    /\ Last.call.z \in DOMAIN Last.pre.pauses

\* n moved up by a block when it lies beyond line number from
ShiftedUp(n, from) == IF n > from THEN n - BlockLen ELSE n

\* C6: remove_pause(h) for h in the pause index shortens the lines by exactly
\* 7, deletes only the lines of that pause block (no layer marker, nothing
\* outside the block) and leaves the entries of every other height where
\* they would be without that block.
C6_RemoveExactBlock ==
    RemoveMade =>
        LET old == Last.pre.lines
            start == Last.pre.pauses[Last.call.z][1]
            end == Last.pre.pauses[Last.call.z][2]
        IN  /\ Len(lines) = Len(old) - BlockLen
            /\ end + 1 <= Len(old)
            /\ StripEol(old[start + 1]) = BeginPause
            /\ StripEol(old[end + 1]) = EndPause
            /\ \A i \in start + 1 .. end + 1 : ~MatchLayer(StripEol(old[i]))
            /\ lines = SubSeq(old, 1, start) \o SubSeq(old, end + 2, Len(old))
            /\ DOMAIN layers = DOMAIN Last.pre.layers
            /\ \A g \in DOMAIN layers :
                  layers[g] = ShiftedUp(Last.pre.layers[g], end)
            /\ DOMAIN pauses = DOMAIN Last.pre.pauses \ {Last.call.z}
            /\ \A g \in DOMAIN pauses :
                  pauses[g] = << ShiftedUp(Last.pre.pauses[g][1], end),
                                 ShiftedUp(Last.pre.pauses[g][2], end) >>

-----------------------------------------------------------------------------
(* C7 *)

\* an insert_pauses_from_yaml call
YamlMade == Len(hist) >= 1 /\ IsYaml(Last)

\* the index of the first record with an invalid parameter, Len(rs) + 1 when
\* there is none
FirstInvalid(rs) ==
    LET bad == {i \in DOMAIN rs : ~ValidKeywords(WithDefaults(rs[i][2]))}
    IN  IF bad = {} THEN Len(rs) + 1
        ELSE CHOOSE i \in bad : \A j \in bad : i <= j

\* the lines ls after the insertions of the records i .. n of rs, one after
\* the other, each after the marker line its height resolves to
RECURSIVE Inserted(_, _, _, _)
Inserted(ls, rs, i, n) ==
    IF i > n THEN ls
    ELSE LET kw == WithDefaults(rs[i][2])
             t == GetLayer(FindLayers(ls).layers, rs[i][1])
             text == GetPauseText(kw.z_offset, kw.x_pause, kw.y_pause,
                                  kw.message).text
         IN  Inserted(IF t.none THEN ls
                      ELSE SubSeq(ls, 1, t.line + 1) \o text
                             \o SubSeq(ls, t.line + 2, Len(ls)),
                      rs, i + 1, n)

\* C7: bulk insert makes one insert_pause call per listed record, in list
\* order. With rk the first invalid record the call raises, the lines hold
\* exactly the insertions of r1..r(k-1) and nothing after rk was attempted;
\* with no invalid record every listed record, repeated heights included,
\* was applied once, in order.
C7_BulkInListOrder ==
    YamlMade =>
        LET rs == Last.call.records
            k == FirstInvalid(rs)
        IN  IF k <= Len(rs)
            THEN /\ Last.raised = "ValueError"
                 /\ Last.calls = k
                 /\ lines = Inserted(Last.pre.lines, rs, 1, k - 1)
            ELSE /\ Last.raised = "none"
                 /\ Last.calls = Len(rs)
                 /\ lines = Inserted(Last.pre.lines, rs, 1, Len(rs))

\* the records of rs as the loop sees them: one per height, at the place
\* the height is first listed, with the parameters it is last listed with
RECURSIVE Effective(_, _)
Effective(rs, i) ==
    IF i > Len(rs) THEN <<>>
    ELSE IF \E j \in 1 .. i - 1 : rs[j][1] = rs[i][1]
    THEN Effective(rs, i + 1)
    ELSE LET last == CHOOSE j \in i .. Len(rs) :
                        /\ rs[j][1] = rs[i][1]
                        /\ \A l \in j + 1 .. Len(rs) : rs[l][1] # rs[i][1]
         IN  <<rs[last]>> \o Effective(rs, i + 1)

\* what the call for record rec does on the lines ls: nothing when the height
\* resolves to no layer, a ValueError before any change when a parameter is
\* invalid, else the insertion, with a KeyError when the pause scan of the
\* new lines fails
CallOutcome(ls, rec) ==
    LET lyrs == FindLayers(ls).layers
        new == Inserted(ls, <<rec>>, 1, 1)
    IN  IF ~(Exact(lyrs, rec[1]) \/ HasHigher(lyrs, rec[1]))
        THEN [lines |-> ls, raised |-> "none"]
        ELSE IF ~ValidKeywords(WithDefaults(rec[2]))
        THEN [lines |-> ls, raised |-> "ValueError"]
        ELSE [lines |-> new,
              raised |-> FindPauses(new, FindLayers(new).layers).raised]

\* the calls for the records i .. of items, up to the first that raises
RECURSIVE Outcome(_, _, _)
Outcome(ls, items, i) ==
    IF i > Len(items) THEN [lines |-> ls, raised |-> "none", calls |-> i - 1]
    ELSE LET o == CallOutcome(ls, items[i])
         IN  IF o.raised # "none"
             THEN [lines |-> o.lines, raised |-> o.raised, calls |-> i]
             ELSE Outcome(o.lines, items, i + 1)

\* C7 as amended: bulk insert makes one insert_pause call per distinct
\* height, in the order the heights are first listed, with the parameters
\* listed last for that height. The calls stop at the first that raises: a
\* ValueError for an invalid record whose height resolves to a layer (that
\* record changes nothing), or a KeyError of the pause scan when the block
\* lands on a layer that already has one (the block stays). Earlier
\* insertions remain, no later record is attempted, and an invalid record
\* whose height is above all layers is skipped without an error.
C7_BulkStopsAtFirstRaise ==
    YamlMade =>
        LET o == Outcome(Last.pre.lines, Effective(Last.call.records, 1), 1)
        IN  /\ lines = o.lines
            /\ Last.raised = o.raised
            /\ Last.calls = o.calls

\* two records, the first inserted, the second refused for its parameters:
\* the first insertion stays
C7_Witness ==
    /\ YamlMade
    /\ Len(Last.call.records) = 2
    /\ Last.call.records[1][1] # Last.call.records[2][1]
    /\ Last.raised = "ValueError"
    /\ Last.calls = 2
    /\ Len(lines) = Len(Last.pre.lines) + BlockLen

-----------------------------------------------------------------------------
(* C8 *)

\* h is the lowest key of lyrs above z
NextHigher(lyrs, z, h) ==
    /\ h \in DOMAIN lyrs
    /\ Less(z, h)
    /\ \A g \in DOMAIN lyrs : Less(z, g) => ~Less(g, h)

\* an insert_pause call at a height that is no key of the layer index
InexactInsertMade ==
    /\ Len(hist) >= 1
    /\ IsInsert(Last)
    /\ ~Exact(Last.pre.layers, Last.call.z)

\* C8: _get_layer(z) returns layers[z] without a warning when z is a key;
\* otherwise the line of the lowest key above z with the substitution
\* warning; otherwise None with the above-all-layers warning, and then
\* insert_pause leaves lines and indices unchanged.
C8_LayerResolution ==
    /\ \A z \in ProbeHeights :
          LET r == GetLayer(layers, z)
          IN  IF Exact(layers, z)
              THEN ~r.none /\ r.line = layers[z] /\ r.warning = "none"
              ELSE IF HasHigher(layers, z)
              THEN /\ ~r.none
                   /\ r.warning = "next higher layer"
                   /\ \E h \in DOMAIN layers :
                         NextHigher(layers, z, h) /\ r.line = layers[h]
              ELSE r.none /\ r.warning = "above all layers"
    /\ InexactInsertMade =>
          IF HasHigher(Last.pre.layers, Last.call.z)
          THEN /\ Last.warnings = <<"next higher layer">>
               /\ ValidKeywords(Last.call.kw) =>
                     \E h \in DOMAIN Last.pre.layers :
                        /\ NextHigher(Last.pre.layers, Last.call.z, h)
                        /\ Len(lines) = Len(Last.pre.lines) + BlockLen
                        /\ StripEol(lines[Last.pre.layers[h] + 2]) = BeginPause
          ELSE /\ Last.warnings = <<"above all layers">>
               /\ Last.raised = "none"
               /\ Untouched(Last)

\* an insert above every layer of a file that has layers, left alone, then
\* an insert between two layers, placed at the higher one
C8_Witness ==
    /\ Len(hist) >= 2
    /\ IsInsert(Before) /\ IsInsert(Last)
    /\ DOMAIN Before.pre.layers # {}
    /\ ~Exact(Before.pre.layers, Before.call.z)
    /\ ~HasHigher(Before.pre.layers, Before.call.z)
    /\ Last.pre.lines = Before.pre.lines
    /\ ~Exact(Last.pre.layers, Last.call.z)
    /\ \E g \in DOMAIN Last.pre.layers : Less(g, Last.call.z)
    /\ HasHigher(Last.pre.layers, Last.call.z)
    /\ Last.warnings = <<"next higher layer">>
    /\ Len(lines) = Len(Last.pre.lines) + BlockLen

-----------------------------------------------------------------------------
(* C9 *)

\* an insert_pause call at an exact height with valid parameters
ExactInsertMade ==
    /\ Len(hist) >= 1
    /\ IsInsert(Last)
    /\ Exact(Last.pre.layers, Last.call.z)
    /\ ValidKeywords(Last.call.kw)

\* C9: after insert_pause with valid parameters at an exact height h whose
\* marker is line L, the layer index has the same keys, layers at lines <= L
\* keep their line, layers at lines > L are 7 further down, lines L+1..L+7
\* are the instantiated template and every other line is kept, in order.
C9_InsertFrame ==
    ExactInsertMade =>
        LET old == Last.pre.lines
            L == Last.pre.layers[Last.call.z]
            kw == Last.call.kw
        IN  /\ DOMAIN layers = DOMAIN Last.pre.layers
            /\ \A g \in DOMAIN layers :
                  layers[g] = IF Last.pre.layers[g] > L
                              THEN Last.pre.layers[g] + BlockLen
                              ELSE Last.pre.layers[g]
            /\ Len(lines) = Len(old) + BlockLen
            /\ SubSeq(lines, L + 2, L + 1 + BlockLen)
                  = GetPauseText(kw.z_offset, kw.x_pause, kw.y_pause,
                                 kw.message).text
            /\ \A i \in 1 .. L + 1 : lines[i] = old[i]
            /\ \A i \in L + 2 .. Len(old) : lines[i + BlockLen] = old[i]

\* an insert at the lower of two layers, with lines after the marker and
\* parameters other than the defaults
C9_Witness ==
    /\ ExactInsertMade
    /\ \E g \in DOMAIN Last.pre.layers :
          Last.pre.layers[g] > Last.pre.layers[Last.call.z]
    /\ Last.call.kw.z_offset # 10
    /\ StripEol(lines[Last.pre.layers[Last.call.z] + 2]) = BeginPause
    /\ lines[Last.pre.layers[Last.call.z] + 4]
          = "G1 Z5    ; Raise hot end by 5mm\n"

-----------------------------------------------------------------------------
(* C10 *)

\* C10: every pause index entry h -> (start, end) has end = start + 6 and
\* start - 1 = layers[h], its lines all exist, line start is the opening
\* sentinel and line end the closing one; and every opening sentinel line is
\* the start of some entry.
C10_PauseBlockStructure ==
    /\ \A h \in DOMAIN pauses :
          LET start == pauses[h][1]
              end == pauses[h][2]
          IN  /\ end = start + 6
              /\ h \in DOMAIN layers
              /\ start - 1 = layers[h]
              /\ end + 1 <= Len(lines)
              /\ StripEol(lines[start + 1]) = BeginPause
              /\ StripEol(lines[end + 1]) = EndPause
    /\ \A i \in 1 .. Len(lines) :
          StripEol(lines[i]) = BeginPause =>
              \E h \in DOMAIN pauses : pauses[h][1] = i - 1

=============================================================================
